---- MODULE Spec2Model ----
(***************************************************************************)
(* The octree builder of O-CNN-AS: OctreeInfo (octree_info.cpp) and        *)
(* Octree::build with its stages (octree.cpp).  Vectors of the source are  *)
(* sequences here; the source's index i is position i + 1, read with       *)
(* At(s, i).                                                               *)
(***************************************************************************)
EXTENDS Integers, Sequences, FiniteSets, TLC

VARIABLES
  pc,            \* position in OctreeInfo::initialize / Octree::build
  oct_info_,     \* the OctreeInfo header
  pt_info,       \* PtsInfo of the point cloud: channels and pt_num
  pts,           \* static_cast<uint32>(pts_scaled): the cell of every point
  sorted_keys,   \* sort_keys: keys in sorted order
  sorted_idx,    \* sort_keys: point index of every sorted key
  node_keys,     \* the vector unique_key collapses, then build_structure's input
  unique_idx,    \* unique_key: run boundaries
  keys_,         \* keys_[d]: keys of layer d
  children_,     \* children_[d]: child index or -1
  dnum_,         \* dnum_[d]: finest nodes covered by a node
  didx_,         \* didx_[d]: first finest node covered by a node
  normal_err_,   \* normal_err_[d]
  distance_err_, \* distance_err_[d]
  drop,          \* trim_octree: the flags of every layer
  drop_pass,     \* trim_octree: the flags of every layer before its restore step
  max_idx,       \* trim_octree: max_idx of the restore step of every layer, -1 without one
  pre,           \* the layers trim_octree read (keys_, children_, nnum) before rewriting
  buffer_size,   \* buffer_.size()
  avg_normals_,  \* avg_normals_[d]: per node, 1 when the averaged normal is not zero, else 0
  displacement_, \* displacement_[d].size()
  avg_features_, \* avg_features_[d].size()
  split_labels_, \* split_labels_[d]
  written,       \* serialize: the bytes of buffer_ every layer of a property is copied to
  buffer_,       \* buffer_: the header at its start, the words after it, and for every
                 \* word the call of serialize that wrote it (0: the fill of resize)
  msg,           \* check_format: the messages appended to msg, in order
  keyarg,        \* compute_key: the point and the depth it is called with
  key,           \* compute_key: the key it returns
  keypt,         \* compute_pt: the point it returns
  omp            \* build_structure: the locals of a pass of its layer loop, the omp loops run by workers

vars == <<pc, oct_info_, pt_info, pts, sorted_keys, sorted_idx, node_keys,
          unique_idx, keys_, children_, dnum_, didx_, normal_err_,
          distance_err_, drop, drop_pass, max_idx, pre, buffer_size,
          avg_normals_, displacement_, avg_features_, split_labels_, written,
          buffer_, msg, keyarg, key, keypt, omp>>

\* the variables Octree::build does not touch
util == <<msg, keyarg, key, keypt, omp>>

\* the averaged signals of calc_signal
signals == <<avg_normals_, displacement_, avg_features_>>

\* what calc_split_label and serialize write
output == <<split_labels_, written, buffer_>>

----------------------------------------------------------------------------
(* Bounds of the model *)

MaxDepth == 3      \* depth argument of initialize ranges over 1..MaxDepth
MaxFull == 2       \* full_depth argument of initialize ranges over 0..MaxFull
MaxPts == 2        \* points of a cloud
MaxX == 3          \* x cell coordinates of a point: 0 and 2^k, k < MaxX (y = z = 0)
MaxErr == 1        \* computed errors range over 0..MaxErr
MaxKeyDepth == 3   \* depth of compute_key and compute_pt called on their own
MaxNodes == 3      \* nodes the layer loop of build_structure starts from, run by workers
ParDepth == 2      \* depth_ of the layer loop run by workers

----------------------------------------------------------------------------
(* Program constants *)

kPTypeNum == 6
kKey == 0
kChild == 1
kNeigh == 2
kFeature == 3
kLabel == 4
kSplit == 5
SizeofOctreeInfo == 352
SizeofInt == 4
Sentinel == 100    \* stands for 1.0e20f, above every computed error
Degenerate == 50   \* stands for 5.0e10f, between the errors of covered points and 1.0e20f

----------------------------------------------------------------------------
(* Helpers for 0-based vectors *)

At(s, i) == s[i + 1]

Size(s) == Len(s)

Idx(s) == 0 .. (Len(s) - 1)

Pow2(n) == 2 ^ n

Pow8(n) == 8 ^ n

Max(a, b) == IF a > b THEN a ELSE b

\* the vector s with every element evaluated
Vec(s) == s \o <<>>

\* the array f with every element evaluated
Fn(f) == f @@ <<>>

----------------------------------------------------------------------------
(* OctreeInfo *)

PropIdx == 0 .. (kPTypeNum - 1)

LayerIdx == 0 .. (MaxDepth + 3)

\* OctreeInfo::reset: memset 0, then the magic string
reset == [ magic_ok |-> TRUE, batch_size |-> 0, depth |-> 0, full_layer |-> 0,
           adp_layer |-> 0, is_adaptive |-> FALSE, has_displace |-> FALSE,
           key2xyz |-> FALSE, threshold_normal |-> 0, threshold_dist |-> 0,
           channels |-> [k \in PropIdx |-> 0],
           locations |-> [k \in PropIdx |-> 0],
           content_flags |-> {},
           nnum |-> [d \in LayerIdx |-> 0],
           nnum_cum |-> [d \in LayerIdx |-> 0],
           nnum_nempty |-> [d \in LayerIdx |-> 0],
           ptr_dis |-> [i \in 0 .. kPTypeNum |-> 0] ]

set_batch_size(info, b) == [info EXCEPT !.batch_size = IF b < 1 THEN 1 ELSE b]

set_depth(info, d) ==
  [info EXCEPT !.depth = IF info.full_layer < d THEN d ELSE info.full_layer]

set_full_layer(info, fd) == [info EXCEPT !.full_layer = IF fd < 1 THEN 1 ELSE fd]

set_adaptive_layer(info, d) == [info EXCEPT !.adp_layer = d]

set_adaptive(info, a) == [info EXCEPT !.is_adaptive = a]

set_node_dis(info, dis) == [info EXCEPT !.has_displace = dis]

set_key2xyz(info, b) == [info EXCEPT !.key2xyz = b]

set_threshold_normal(info, th) == [info EXCEPT !.threshold_normal = th]

set_threshold_dist(info, th) == [info EXCEPT !.threshold_dist = th]

\* the property index i stands for the PropType 1 << i
set_channel(info, i, ch) ==
  IF ch > 0
  THEN [info EXCEPT !.channels[i] = ch, !.content_flags = @ \cup {i}]
  ELSE [info EXCEPT !.channels[i] = 0, !.content_flags = @ \ {i}]

set_location(info, i, lc) == [info EXCEPT !.locations[i] = lc]

has_property(info, i) == i \in info.content_flags

channel(info, i) == IF ~has_property(info, i) THEN 0 ELSE info.channels[i]

locations(info, i) == IF ~has_property(info, i) THEN 0 ELSE info.locations[i]

nnum(info, d) == info.nnum[d]

total_nnum(info) == info.nnum_cum[info.depth + 1]

total_nnum_capacity(info) == info.nnum_cum[info.depth + 2]

sizeof_octree(info) == info.ptr_dis[kPTypeNum]

\* memcpy of depth_ + 1 entries
set_nnum(info, num) ==
  [info EXCEPT !.nnum = Fn([d \in LayerIdx |-> IF d <= info.depth THEN At(num, d) ELSE @[d]])]

set_nempty(info, num) ==
  [info EXCEPT !.nnum_nempty =
     Fn([d \in LayerIdx |-> IF d <= info.depth THEN At(num, d) ELSE @[d]])]

RECURSIVE CumSum(_, _)
CumSum(info, d) == IF d = 0 THEN 0 ELSE CumSum(info, d - 1) + info.nnum[d - 1]

set_nnum_cum(info, capacity) ==
  LET top == CumSum(info, info.depth + 1)
  IN [info EXCEPT !.nnum_cum =
        Fn([d \in LayerIdx |->
           IF d <= info.depth + 1 THEN CumSum(info, d)
           ELSE IF d = info.depth + 2 THEN Max(capacity, top)
           ELSE @[d]])]

\* set_ptr_dis sizing every property by the node count of all layers
RECURSIVE PtrDisAllLayers(_, _)
PtrDisAllLayers(info, i) ==
  IF i = 0 THEN SizeofOctreeInfo
  ELSE PtrDisAllLayers(info, i - 1)
       + SizeofInt * total_nnum_capacity(info) * info.channels[i - 1]

RECURSIVE PtrDis(_, _)
PtrDis(info, i) ==
  IF i = 0 THEN SizeofOctreeInfo
  ELSE LET lc == locations(info, i - 1)
           num == IF lc = -1 THEN total_nnum_capacity(info) ELSE nnum(info, lc)
       IN PtrDis(info, i - 1) + SizeofInt * num * info.channels[i - 1]

set_ptr_dis(info) == [info EXCEPT !.ptr_dis = Fn([i \in 0 .. kPTypeNum |-> PtrDis(info, i)])]

\* PtsInfo::channel of the attributes initialize reads
PtChannelSum(pi) == pi.normal + pi.feature + pi.fpfh + pi.roughness

initialize(info, a, pi) ==
  LET i1 == set_batch_size(info, 1)
      i2 == set_depth(i1, a.depth)
      i3 == set_full_layer(i2, a.full_depth)
      i4 == set_adaptive_layer(i3, a.adaptive_depth)
      i5 == set_adaptive(i4, a.adaptive)
      i6 == set_node_dis(i5, a.node_displacement)
      i7 == set_key2xyz(i6, a.key2xyz)
      i8 == set_threshold_normal(i7, a.threshold_normal)
      i9 == set_threshold_dist(i8, a.threshold_distance)
      kch == IF a.key2xyz /\ a.depth > 8 THEN 2 ELSE 1
      j1 == set_location(set_channel(i9, kKey, kch), kKey, -1)
      j2 == set_location(set_channel(j1, kChild, 1), kChild, -1)
      j3 == IF a.split_label
            THEN set_location(set_channel(j2, kSplit, 1), kSplit, -1)
            ELSE j2
      fch == PtChannelSum(pi) + (IF a.node_displacement THEN 1 ELSE 0)
      loc == IF a.node_feature \/ a.adaptive THEN -1 ELSE a.depth
      j4 == set_location(set_channel(j3, kFeature, fch), kFeature, loc)
      j5 == IF pi.label = 1
            THEN set_location(set_channel(j4, kLabel, 1), kLabel, loc)
            ELSE j4
  IN j5

\* channel_max of check_format
channel_max == Fn([i \in PropIdx |->
  CASE i = kKey -> 2 [] i = kChild -> 1 [] i = kNeigh -> 8
    [] i = kFeature -> Pow2(30) [] i = kLabel -> 1 [] i = kSplit -> 1])

\* the messages of the loop of check_format from property i on
RECURSIVE ChannelMessages(_, _)
ChannelMessages(info, i) ==
  IF i >= kPTypeNum THEN <<>>
  ELSE (IF info.channels[i] < 0 /\ info.channels[i] > channel_max[i]
        THEN <<"channel">> ELSE <<>>)
       \o (IF (info.channels[i] = 0) # (i \notin info.content_flags)
           THEN <<"content_flags">> ELSE <<>>)
       \o (IF info.channels[i] # 0 /\ info.locations[i] # -1
              /\ info.locations[i] # info.depth
           THEN <<"locations">> ELSE <<>>)
       \o ChannelMessages(info, i + 1)

\* check_format: msg; the return value is msg.empty()
check_format(info) ==
  (IF ~info.magic_ok THEN <<"magic">> ELSE <<>>)
  \o (IF info.batch_size < 0 THEN <<"batch_size">> ELSE <<>>)
  \o (IF info.depth < 1 \/ info.depth > 8 THEN <<"depth">> ELSE <<>>)
  \o (IF info.full_layer < 0 \/ info.full_layer > info.depth
      THEN <<"full_layer">> ELSE <<>>)
  \o (IF info.adp_layer < info.full_layer \/ info.adp_layer > info.depth
      THEN <<"adp_layer">> ELSE <<>>)
  \o ChannelMessages(info, 0)

----------------------------------------------------------------------------
(* Keys *)

Bit(x, i) == (x \div Pow2(i)) % 2

\* the interleaving with pt[0] and pt[2] exchanged
RECURSIVE compute_key_zyx(_, _)
compute_key_zyx(pt, depth) ==
  IF depth = 0 THEN 0
  ELSE LET i == depth - 1
       IN (Bit(pt[1], i) + 2 * Bit(pt[2], i) + 4 * Bit(pt[3], i)) * Pow8(i)
          + compute_key_zyx(pt, i)

\* interleave the low depth bits of pt[0], pt[1], pt[2]: bit i of the three
\* coordinates becomes the octal digit i of the key
RECURSIVE compute_key(_, _)
compute_key(pt, depth) ==
  IF depth = 0 THEN 0
  ELSE LET i == depth - 1
       IN (4 * Bit(pt[1], i) + 2 * Bit(pt[2], i) + Bit(pt[3], i)) * Pow8(i)
          + compute_key(pt, i)

\* coordinate j of compute_pt: bit 3i + 2 - j of the key becomes bit i
RECURSIVE PtCoord(_, _, _)
PtCoord(k, j, depth) ==
  IF depth = 0 THEN 0
  ELSE LET i == depth - 1
       IN Bit(k, 3 * i + 2 - j) * Pow2(i) + PtCoord(k, j, i)

\* de-interleave the low 3 * depth bits of the key
compute_pt(k, depth) == <<PtCoord(k, 0, depth), PtCoord(k, 1, depth), PtCoord(k, 2, depth)>>

\* code[i]: ptr[0] = i is the low half and ptr[1] = key the high half of the
\* 64-bit value, so codes compare by key first and by point index second
Code(p, depth) == Fn([i \in Idx(p) |-> [key |-> compute_key(At(p, i), depth), idx |-> i]])

\* the codes compared with the point index as the high half
CodeLessByIndex(a, b) == a.idx < b.idx \/ (a.idx = b.idx /\ a.key < b.key)

CodeLess(a, b) == a.key < b.key \/ (a.key = b.key /\ a.idx < b.idx)

\* std::sort of the codes, ascending
RECURSIVE SortCodes(_)
SortCodes(S) ==
  IF S = {} THEN <<>>
  ELSE LET m == CHOOSE x \in S : \A y \in S \ {x} : CodeLess(x, y)
       IN <<m>> \o SortCodes(S \ {m})

\* sort_keys: [keys, idx]
sort_keys(p, depth) ==
  LET code == Code(p, depth)
      sorted == SortCodes({code[i] : i \in DOMAIN code})
  IN [ keys |-> Vec([t \in 1 .. Len(sorted) |-> sorted[t].key]),
       idx |-> Vec([t \in 1 .. Len(sorted) |-> sorted[t].idx]) ]

\* unique_key recording the position after the first key of a run
RECURSIVE UniqueLoopLate(_, _, _, _)
UniqueLoopLate(k, i, out, idx) ==
  IF i >= Size(k) THEN [keys |-> out, idx |-> idx]
  ELSE IF At(k, i) # At(k, i - 1)
       THEN UniqueLoopLate(k, i + 1, Append(out, At(k, i)), Append(idx, i + 1))
       ELSE UniqueLoopLate(k, i + 1, out, idx)

\* the loop of unique_key from position i on: j - 1 keys written so far
RECURSIVE UniqueLoop(_, _, _, _)
UniqueLoop(k, i, out, idx) ==
  IF i >= Size(k) THEN [keys |-> out, idx |-> idx]
  ELSE IF At(k, i) # At(k, i - 1)
       THEN UniqueLoop(k, i + 1, Append(out, At(k, i)), Append(idx, i))
       ELSE UniqueLoop(k, i + 1, out, idx)

\* unique_key: [keys, idx].  keys[0] is never written and keys.resize(j) has
\* j >= 1, so an empty input grows to one value-initialized key
unique_key(k) ==
  LET r == UniqueLoop(k, 1, IF Size(k) = 0 THEN <<0>> ELSE <<At(k, 0)>>, <<0>>)
  IN [keys |-> r.keys, idx |-> Append(r.idx, Size(k))]

----------------------------------------------------------------------------
(* Octree::build_structure *)

Shr3(k) == k \div 8

Shl3(k) == k * 8

And7(k) == k % 8

\* a | b where a < 8 and b is a multiple of 8
Or(a, b) == a + b

\* a vector of n copies of v
Fill(n, v) == Vec([i \in 1 .. n |-> v])

\* layer curr_depth <= full_layer_: keys[i] = i, children[i] = i above full_layer_
FullKeys(curr_depth) == Vec([t \in 1 .. Pow8(curr_depth) |-> t - 1])

\* children[i] = i on every full layer, layer full_layer_ included
FullChildrenAllInternal(curr_depth, full_layer) ==
  Vec([t \in 1 .. Pow8(curr_depth) |-> t - 1])

FullChildren(curr_depth, full_layer) ==
  Vec([t \in 1 .. Pow8(curr_depth) |-> IF curr_depth # full_layer THEN t - 1 ELSE -1])

\* addr[j] = i << 3 for the run i of parent_pidx that holds j
Addr(parent_pidx, np, j) ==
  Shl3(CHOOSE i \in 0 .. (np - 1) : At(parent_pidx, i) <= j /\ j < At(parent_pidx, i + 1))

\* k = node_keys[i] & 7u, the base address left out
SlotOctantOnly(nk, parent_pidx, np, i) == And7(At(nk, i))

\* k = (node_keys[i] & 7u) | addr[i]
Slot(nk, parent_pidx, np, i) == Or(And7(At(nk, i)), Addr(parent_pidx, np, i))

\* children[k] = i for every node i, the others stay -1
SetChildren(nk, parent_pidx, np) ==
  Vec([t \in 1 .. Shl3(np) |->
     LET hit == {i \in Idx(nk) : Slot(nk, parent_pidx, np, i) = t - 1}
     IN IF hit = {} THEN -1 ELSE CHOOSE i \in hit : \A h \in hit : h <= i])

\* keys[i] = parent_keys[i >> 3] << 3, the octant left out
AugmentKeysNoOctant(parent_keys) ==
  Vec([t \in 1 .. Shl3(Size(parent_keys)) |-> Shl3(At(parent_keys, Shr3(t - 1)))])

\* keys[i] = (parent_keys[i >> 3] << 3) | (i % 8)
AugmentKeys(parent_keys) ==
  Vec([t \in 1 .. Shl3(Size(parent_keys)) |->
     Or((t - 1) % 8, Shl3(At(parent_keys, Shr3(t - 1))))])

\* the loop from layer depth_ down to full_layer_ + 1
RECURSIVE LayerLoop(_, _, _, _, _)
LayerLoop(curr_depth, full_layer, nk, K, C) ==
  IF curr_depth <= full_layer THEN [keys |-> K, children |-> C, node_keys |-> nk]
  ELSE LET u == unique_key(Vec([t \in 1 .. Size(nk) |-> Shr3(nk[t])]))
           np == Size(u.keys)
       IN LayerLoop(curr_depth - 1, full_layer, u.keys,
                    [K EXCEPT ![curr_depth] = AugmentKeys(u.keys)],
                    [C EXCEPT ![curr_depth] = SetChildren(nk, u.idx, np)])

\* children_[full_layer_][node_keys[i]] = i
SetFullLayer(ch, nk) ==
  Vec([t \in 1 .. Size(ch) |->
     LET hit == {i \in Idx(nk) : At(nk, i) = t - 1}
     IN IF hit = {} THEN ch[t] ELSE CHOOSE i \in hit : \A h \in hit : h <= i])

build_structure(nk, depth, full_layer) ==
  LET K0 == Fn([d \in 0 .. depth |-> IF d <= full_layer THEN FullKeys(d) ELSE <<>>])
      C0 == Fn([d \in 0 .. depth |->
               IF d <= full_layer THEN FullChildren(d, full_layer) ELSE <<>>])
      r == LayerLoop(depth, full_layer, nk, K0, C0)
  IN [ keys |-> r.keys,
       children |-> IF depth > full_layer
                    THEN [r.children EXCEPT
                            ![full_layer] = SetFullLayer(@, r.node_keys)]
                    ELSE r.children,
       node_keys |-> r.node_keys ]

----------------------------------------------------------------------------
(* Octree::calc_node_num *)

node_type(t) == IF t = -1 THEN "kLeaf" ELSE "kInternelNode"

\* i + 1 for the last i with children_d[i] != -1, else 0
LastNemptyPosition(children_d) ==
  LET I == {i \in Idx(children_d) : At(children_d, i) # -1}
  IN IF I = {} THEN 0
     ELSE (CHOOSE i \in I : \A h \in I : h <= i) + 1

\* children_d[i] + 1 for the first i with children_d[i] != -1, else 0
LastNemptyFirst(children_d) ==
  LET I == {i \in Idx(children_d) : At(children_d, i) # -1}
  IN IF I = {} THEN 0
     ELSE At(children_d, CHOOSE i \in I : \A h \in I : i <= h) + 1

\* children_d[i] + 1 for the last i with children_d[i] != -1, else 0
LastNempty(children_d) ==
  LET I == {i \in Idx(children_d) : At(children_d, i) # -1}
  IN IF I = {} THEN 0
     ELSE At(children_d, CHOOSE i \in I : \A h \in I : h <= i) + 1

calc_node_num(info, K, C) ==
  LET node_num == Vec([t \in 1 .. info.depth + 1 |-> Size(K[t - 1])])
      node_num_nempty == Vec([t \in 1 .. info.depth + 1 |-> LastNempty(C[t - 1])])
  IN set_ptr_dis(set_nnum_cum(set_nempty(set_nnum(info, node_num), node_num_nempty), 0))

----------------------------------------------------------------------------
(* Octree::covered_depth_nodes *)

RECURSIVE SumSeq(_, _)
SumSeq(f, n) == IF n = 0 THEN 0 ELSE f[n] + SumSeq(f, n - 1)

\* dnum_[d] and didx_[d] with didx taken from the first child, covered or not
RECURSIVE CoveredFirstChild(_, _, _)
CoveredFirstChild(info, C, d) ==
  IF d = info.depth
  THEN [ dnum |-> Fill(nnum(info, d), 1),
         didx |-> Vec([t \in 1 .. nnum(info, d) |-> t - 1]) ]
  ELSE IF d = info.depth - 1
  THEN [ dnum |-> Vec([t \in 1 .. nnum(info, d) |->
                     IF node_type(C[d][t]) = "kLeaf" THEN 0 ELSE 8]),
         didx |-> Vec([t \in 1 .. nnum(info, d) |->
                     IF node_type(C[d][t]) = "kLeaf" THEN -1 ELSE C[d][t] * 8]) ]
  ELSE LET below == CoveredFirstChild(info, C, d + 1)
       IN [ dnum |-> Vec([t \in 1 .. nnum(info, d) |->
                        IF node_type(C[d][t]) = "kLeaf" THEN 0
                        ELSE SumSeq(Vec([j \in 1 .. 8 |-> At(below.dnum, C[d][t] * 8 + j - 1)]), 8)]),
            didx |-> Vec([t \in 1 .. nnum(info, d) |->
                        IF node_type(C[d][t]) = "kLeaf" THEN -1
                        ELSE At(below.didx, C[d][t] * 8)]) ]

\* dnum_[d] and didx_[d], from the layer below
RECURSIVE Covered(_, _, _)
Covered(info, C, d) ==
  IF d = info.depth
  THEN [ dnum |-> Fill(nnum(info, d), 1),
         didx |-> Vec([t \in 1 .. nnum(info, d) |-> t - 1]) ]
  ELSE IF d = info.depth - 1
  THEN [ dnum |-> Vec([t \in 1 .. nnum(info, d) |->
                     IF node_type(C[d][t]) = "kLeaf" THEN 0 ELSE 8]),
         didx |-> Vec([t \in 1 .. nnum(info, d) |->
                     IF node_type(C[d][t]) = "kLeaf" THEN -1 ELSE C[d][t] * 8]) ]
  ELSE LET below == Covered(info, C, d + 1)
       IN [ dnum |-> Vec([t \in 1 .. nnum(info, d) |->
                        IF node_type(C[d][t]) = "kLeaf" THEN 0
                        ELSE SumSeq(Vec([j \in 1 .. 8 |-> At(below.dnum, C[d][t] * 8 + j - 1)]), 8)]),
            didx |-> Vec([t \in 1 .. nnum(info, d) |->
                        IF node_type(C[d][t]) = "kLeaf" THEN -1
                        ELSE LET J == {j \in 0 .. 7 : At(below.didx, C[d][t] * 8 + j) # -1}
                             IN IF J = {} THEN -1
                                ELSE At(below.didx,
                                        C[d][t] * 8 + (CHOOSE j \in J : \A h \in J : j <= h))]) ]

covered_depth_nodes(info, C) ==
  [ dnum |-> Fn([d \in 0 .. info.depth |-> Covered(info, C, d).dnum]),
    didx |-> Fn([d \in 0 .. info.depth |-> Covered(info, C, d).didx]) ]

----------------------------------------------------------------------------
(* Octree::calc_signal(calc_normal_err, calc_dist_err): the error arrays *)

\* the nodes whose error the loop computes: non-leaf, layer d in [lo, depth)
ErrNodes(C, depth, lo) ==
  {n \in UNION {{<<d, i>> : i \in Idx(C[d])} : d \in 0 .. (depth - 1)} :
     n[1] >= lo /\ node_type(At(C[n[1]], n[2])) # "kLeaf"}

\* count - ESP: the non-leaf finest nodes in the covered range of node n
Count(info, C, cov, n) ==
  Cardinality({j \in At(cov.didx[n[1]], n[2]) ..
                     (At(cov.didx[n[1]], n[2]) + At(cov.dnum[n[1]], n[2]) - 1) :
                 node_type(At(C[info.depth], j)) # "kLeaf"})

\* resize / assign with 1.0e20f, then the values of the nodes N: e[n], a
\* value computed from the covered signals, or empty when nothing is covered
ErrArrays(info, calc, N, e, empty) ==
  Fn([d \in 0 .. info.depth |->
     IF ~calc THEN <<>>
     ELSE Vec([t \in 1 .. nnum(info, d) |->
             IF <<d, t - 1>> \in DOMAIN e THEN e[<<d, t - 1>>]
             ELSE IF <<d, t - 1>> \in N THEN empty
             ELSE Sentinel])])

----------------------------------------------------------------------------
(* Octree::trim_octree *)

\* for every block of 8 nodes of layer d, the internal node i of layer d - 1
\* with children_dp[i] = block, the last one in loop order, or -1
Parents(children_dp, nnum_dp, nnum_d) ==
  Vec([b \in 1 .. ((nnum_d + 7) \div 8) |->
     LET P == {i \in 0 .. (nnum_dp - 1) :
                 node_type(At(children_dp, i)) # "kLeaf" /\ At(children_dp, i) = b - 1}
     IN IF P = {} THEN -1 ELSE CHOOSE i \in P : \A h \in P : h <= i])

\* the parent whose loop iteration reaches idx = t * 8 + j
ParentOf(par, idx) == At(par, idx \div 8)

\* the test with one error below its threshold being enough
BelowThresholdEither(info, nerr_d, derr_d, idx) ==
  (info.has_displace /\ At(derr_d, idx) < info.threshold_dist)
  \/ At(nerr_d, idx) < info.threshold_normal

\* the test that sets kDropChildren
BelowThreshold(info, nerr_d, derr_d, idx) ==
  (~info.has_displace \/ (info.has_displace /\ At(derr_d, idx) < info.threshold_dist))
  /\ At(nerr_d, idx) < info.threshold_normal

\* the flag pass without the else branch: the children of a parent that is
\* not kKeep keep their initial flag
FlagPassNoDrop(info, nnum_d, par, drop_dp, nerr_d, derr_d) ==
  Vec([t \in 1 .. nnum_d |->
     LET i == ParentOf(par, t - 1)
     IN IF i # -1 /\ At(drop_dp, i) = "kKeep"
           /\ BelowThreshold(info, nerr_d, derr_d, t - 1)
        THEN "kDropChildren" ELSE "kKeep"])

\* the flags of layer d after the loop over the parents
FlagPass(info, nnum_d, par, drop_dp, nerr_d, derr_d) ==
  Vec([t \in 1 .. nnum_d |->
     LET i == ParentOf(par, t - 1)
     IN IF i = -1 THEN "kKeep"
        ELSE IF At(drop_dp, i) = "kKeep"
             THEN IF BelowThreshold(info, nerr_d, derr_d, t - 1)
                  THEN "kDropChildren" ELSE "kKeep"
             ELSE "kDrop"])

\* all_drop: no child of an internal parent is kKeep and internal
AllDrop(nnum_d, par, children_d, drop_d) ==
  ~ \E idx \in 0 .. (nnum_d - 1) :
       /\ ParentOf(par, idx) # -1
       /\ At(drop_d, idx) = "kKeep"
       /\ node_type(At(children_d, idx)) = "kInternelNode"

\* max_idx searched among the internal children of every internal parent
MaxIdxAnyParent(nnum_d, par, children_d, drop_dp, nerr_d) ==
  LET cand == {idx \in 0 .. (nnum_d - 1) :
                 /\ ParentOf(par, idx) # -1
                 /\ node_type(At(children_d, idx)) = "kInternelNode"
                 /\ At(nerr_d, idx) > -1}
      best == {c \in cand : \A o \in cand : At(nerr_d, o) <= At(nerr_d, c)}
  IN IF cand = {} THEN 0
     ELSE CHOOSE c \in best :
            \A o \in best :
               ParentOf(par, c) < ParentOf(par, o)
               \/ (ParentOf(par, c) = ParentOf(par, o) /\ c <= o)

\* max_idx: the first internal child of a kKeep parent, in loop order, whose
\* normal_err is not exceeded by another one; 0 when there is none
MaxIdx(nnum_d, par, children_d, drop_dp, nerr_d) ==
  LET cand == {idx \in 0 .. (nnum_d - 1) :
                 LET i == ParentOf(par, idx)
                 IN /\ i # -1
                    /\ At(drop_dp, i) = "kKeep"
                    /\ node_type(At(children_d, idx)) = "kInternelNode"
                    /\ At(nerr_d, idx) > -1}
      best == {c \in cand : \A o \in cand : At(nerr_d, o) <= At(nerr_d, c)}
  IN IF cand = {} THEN 0
     ELSE CHOOSE c \in best :
            \A o \in best :
               ParentOf(par, c) < ParentOf(par, o)
               \/ (ParentOf(par, c) = ParentOf(par, o) /\ c <= o)

\* the iteration without the restore step
FlagLayerNoRestore(info, C, nerr, derr, dr, d) ==
  LET nnum_d == nnum(info, d)
      par == Parents(C[d - 1], nnum(info, d - 1), nnum_d)
      drop_d == FlagPass(info, nnum_d, par, dr[d - 1], nerr[d], derr[d])
  IN [pass |-> drop_d, max_idx |-> -1, drop |-> drop_d]

\* one iteration of the flag loop, layer d: drop_d after the loop over the
\* parents (pass), max_idx of the restore step, -1 when it is not entered,
\* and drop_d at the end of the iteration (drop)
FlagLayer(info, C, nerr, derr, dr, d) ==
  LET nnum_d == nnum(info, d)
      par == Parents(C[d - 1], nnum(info, d - 1), nnum_d)
      drop_d == FlagPass(info, nnum_d, par, dr[d - 1], nerr[d], derr[d])
      idx == IF AllDrop(nnum_d, par, C[d], drop_d)
             THEN MaxIdx(nnum_d, par, C[d], dr[d - 1], nerr[d])
             ELSE -1
  IN [ pass |-> drop_d, max_idx |-> idx,
       drop |-> IF idx # -1 THEN [drop_d EXCEPT ![idx + 1] = "kKeep"] ELSE drop_d ]

\* the flag loop from layer d on; st holds, for every layer, drop and what
\* the iterations so far left of pass and max_idx
RECURSIVE FlagLoop(_, _, _, _, _, _)
FlagLoop(info, C, nerr, derr, st, d) ==
  IF d > info.depth THEN st
  ELSE LET r == FlagLayer(info, C, nerr, derr, st.drop, d)
       IN FlagLoop(info, C, nerr, derr,
                   [ drop |-> [st.drop EXCEPT ![d] = r.drop],
                     pass |-> [st.pass EXCEPT ![d] = r.pass],
                     max_idx |-> [st.max_idx EXCEPT ![d] = r.max_idx] ], d + 1)

\* the flag loop on drop[d] resized with kKeep: drop, and for every layer
\* drop_d before its restore step and max_idx
TrimFlags(info, C, nerr, derr) ==
  LET keep == Fn([d \in 0 .. info.depth |-> Fill(nnum(info, d), "kKeep")])
  IN FlagLoop(info, C, nerr, derr,
              [drop |-> keep, pass |-> keep, max_idx |-> Fn([d \in 0 .. info.depth |-> -1])],
              info.adp_layer)

\* drop[d] for every layer
DropFlags(info, C, nerr, derr) == TrimFlags(info, C, nerr, derr).drop

\* the entries of s at the positions lo..hi that are not kDrop, in order
RECURSIVE Kept(_, _, _, _)
Kept(s, drop_d, lo, hi) ==
  IF lo > hi THEN <<>>
  ELSE IF lo = hi THEN (IF drop_d[lo] = "kDrop" THEN <<>> ELSE <<s[lo]>>)
  ELSE LET mid == (lo + hi) \div 2
       IN Kept(s, drop_d, lo, mid) \o Kept(s, drop_d, mid + 1, hi)

\* the rewritten children of the positions lo..hi, the ids counted from 0:
\* id++ for a kept internal node, else -1
RECURSIVE TrimChildren(_, _, _, _)
TrimChildren(children_d, drop_d, lo, hi) ==
  IF lo > hi THEN [out |-> <<>>, id |-> 0]
  ELSE IF lo = hi
  THEN IF drop_d[lo] = "kDrop" THEN [out |-> <<>>, id |-> 0]
       ELSE IF drop_d[lo] = "kKeep" /\ node_type(children_d[lo]) # "kLeaf"
            THEN [out |-> <<0>>, id |-> 1]
            ELSE [out |-> <<-1>>, id |-> 0]
  ELSE LET mid == (lo + hi) \div 2
           l == TrimChildren(children_d, drop_d, lo, mid)
           r == TrimChildren(children_d, drop_d, mid + 1, hi)
       IN [ out |-> l.out \o Vec([t \in 1 .. Len(r.out) |->
                                IF r.out[t] = -1 THEN -1 ELSE r.out[t] + l.id]),
            id |-> l.id + r.id ]

TrimKeys(info, K, dr) ==
  Fn([d \in 0 .. info.depth |->
     IF d >= info.adp_layer THEN Kept(K[d], dr[d], 1, nnum(info, d)) ELSE K[d]])

TrimLayers(info, C, dr) ==
  Fn([d \in 0 .. info.depth |->
     IF d >= info.adp_layer THEN TrimChildren(C[d], dr[d], 1, nnum(info, d)).out ELSE C[d]])

----------------------------------------------------------------------------
(* Octree::calc_signal: the averaged signals *)

\* avg_normals_[depth]: empty without normals; else 0 for a leaf and for a
\* node without points, and a unit vector for a node with points, the points
\* of a cloud carrying one and the same unit normal
FinestNormals(pi, children_depth, uidx) ==
  IF pi.normal = 0 THEN <<>>
  ELSE Vec([t \in 1 .. Len(children_depth) |->
          IF node_type(children_depth[t]) = "kLeaf" THEN 0
          ELSE IF At(uidx, children_depth[t] + 1) > At(uidx, children_depth[t])
               THEN 1 ELSE 0])

\* avg_normals_[d], d < depth: n_avg / len over the covered non-leaf nodes
\* of the finest layer
CoarseNormals(info, C, cov, normal_depth, d) ==
  IF normal_depth = <<>> THEN <<>>
  ELSE Vec([t \in 1 .. nnum(info, d) |->
          IF node_type(C[d][t]) = "kLeaf" THEN 0
          ELSE IF \E j \in cov.didx[d][t] .. (cov.didx[d][t] + cov.dnum[d][t] - 1) :
                    /\ node_type(At(C[info.depth], j)) # "kLeaf"
                    /\ At(normal_depth, j) = 1
               THEN 1 ELSE 0])

\* avg_normals_ after the two calc_signal; on: the second one is called
AvgNormals(info, pi, C, cov, uidx, on) ==
  LET normal_depth == FinestNormals(pi, C[info.depth], uidx)
  IN Fn([d \in 0 .. info.depth |->
        IF d = info.depth THEN normal_depth
        ELSE IF on THEN CoarseNormals(info, C, cov, normal_depth, d)
        ELSE <<>>])

\* the sizes of a signal with ch floats per node that the first calc_signal
\* assigns when present is true: the second one assigns the coarser layers
\* when the finest layer is not empty
SignalSizes(info, ch, present, on) ==
  Fn([d \in 0 .. info.depth |->
     IF present /\ ch * nnum(info, info.depth) > 0 /\ (d = info.depth \/ on)
     THEN ch * nnum(info, d) ELSE 0])

----------------------------------------------------------------------------
(* Octree::calc_split_label *)

\* the sum of the absolute components of avg_normals_[d] at node i is not
\* zero; oob is what a read past the end of the vector yields
NormalNonZero(normal_d, i, oob) ==
  IF i < Len(normal_d) THEN At(normal_d, i) # 0 ELSE oob

\* calc_split_label reads avg_normals_[d] past its end
SplitLabelOutOfRange(info, C, normals) ==
  /\ info.is_adaptive
  /\ \E d \in 0 .. info.depth :
       \E i \in Idx(C[d]) : node_type(At(C[d], i)) = "kLeaf" /\ i >= Len(normals[d])

calc_split_label(info, C, normals, oob) ==
  Fn([d \in 0 .. info.depth |->
     Vec([t \in 1 .. nnum(info, d) |->
        IF node_type(C[d][t]) # "kLeaf" THEN 1
        ELSE IF info.is_adaptive /\ NormalNonZero(normals[d], t - 1, oob) THEN 2
        ELSE 0])])

\* what the reads past the end of avg_normals_ lead to: the process is
\* stopped, or every such read yields zeros, or every one a value that is
\* not zero (the reads of one call are not told apart further)
ReadOutcomes(range) == IF range THEN {"stopped", "zero", "nonzero"} ELSE {"inside"}

----------------------------------------------------------------------------
(* Octree::serialize *)

\* the properties serialize copies
Serialized(info) ==
  {K \in {kKey, kChild, kFeature, kLabel, kSplit} : has_property(info, K)}

\* src[d].size() of property K: keys_ (xyz with key2xyz), children_, features
\* = avg_normals_ ++ displacement_ ++ avg_features_ (the clouds carry no fpfh
\* and no roughness), avg_labels_ (empty: the clouds carry no label) and
\* split_labels_
SrcSize(info, pi, K, C, normals, disp, feat, labels, P, d) ==
  CASE P = kKey -> IF info.key2xyz THEN nnum(info, d) * channel(info, kKey)
                   ELSE Len(K[d])
    [] P = kChild -> Len(C[d])
    [] P = kFeature -> pi.normal * Len(normals[d]) + disp[d] + feat[d]
    [] P = kLabel -> 0
    [] P = kSplit -> Len(labels[d])

\* the elements std::copy has written before it reaches layer d
RECURSIVE SrcBefore(_, _, _, _, _, _, _, _, _, _)
SrcBefore(info, pi, K, C, normals, disp, feat, labels, P, d) ==
  IF d = 0 THEN 0
  ELSE SrcBefore(info, pi, K, C, normals, disp, feat, labels, P, d - 1)
       + SrcSize(info, pi, K, C, normals, disp, feat, labels, P, d - 1)

\* serialize<Dtype>(mutable_ptr(P, 0), src, locations(P)) for every property
\* P of the header: the layer, the offset in buffer_ and the bytes of every
\* std::copy
Written(info, pi, K, C, normals, disp, feat, labels) ==
  Fn([P \in Serialized(info) |->
     LET lc == locations(info, P)
     IN IF lc = -1
        THEN Vec([t \in 1 .. info.depth + 1 |->
               [ d |-> t - 1,
                 at |-> info.ptr_dis[P] + SizeofInt *
                          SrcBefore(info, pi, K, C, normals, disp, feat, labels, P, t - 1),
                 bytes |-> SizeofInt *
                          SrcSize(info, pi, K, C, normals, disp, feat, labels, P, t - 1) ]])
        ELSE <<[ d |-> lc, at |-> info.ptr_dis[P],
                 bytes |-> SizeofInt *
                          SrcSize(info, pi, K, C, normals, disp, feat, labels, P, lc) ]>>])

\* buffer_ after clear
NoBuffer == [info |-> <<>>, words |-> <<>>, by |-> <<>>]

\* the word of buffer_ at a byte offset past the header, counted from 0
WordAt(bytes) == (bytes - SizeofOctreeInfo) \div SizeofInt

\* src[d] of property P: the values of keys_, children_ and split_labels_;
\* the floats of features are held as 0, so are the packed xyz of key2xyz
SrcData(info, pi, K, C, normals, disp, feat, labels, P, d) ==
  CASE P = kKey -> IF info.key2xyz THEN Fill(nnum(info, d) * channel(info, kKey), 0)
                   ELSE K[d]
    [] P = kChild -> C[d]
    [] P = kFeature ->
         Fill(SrcSize(info, pi, K, C, normals, disp, feat, labels, P, d), 0)
    [] P = kLabel -> <<>>
    [] P = kSplit -> labels[d]

\* src[0] ++ .. ++ src[d], what the consecutive std::copy of the layers write
RECURSIVE SrcUpTo(_, _, _, _, _, _, _, _, _, _)
SrcUpTo(info, pi, K, C, normals, disp, feat, labels, P, d) ==
  IF d < 0 THEN <<>>
  ELSE SrcUpTo(info, pi, K, C, normals, disp, feat, labels, P, d - 1)
       \o SrcData(info, pi, K, C, normals, disp, feat, labels, P, d)

\* what serialize<Dtype> copies to mutable_ptr(P, 0)
Copied(info, pi, K, C, normals, disp, feat, labels, P) ==
  IF locations(info, P) = -1
  THEN SrcUpTo(info, pi, K, C, normals, disp, feat, labels, P, info.depth)
  ELSE SrcData(info, pi, K, C, normals, disp, feat, labels, P, locations(info, P))

\* std::copy of data to the words at .. at + |data| - 1 of s
Overlay(s, at, data) ==
  IF data = <<>> THEN s
  ELSE SubSeq(s, 1, at) \o data \o SubSeq(s, at + Len(data) + 1, Len(s))

\* buffer_.resize(n, 0) in words
Resize(s, n) == Vec([w \in 1 .. n |-> IF w <= Len(s) THEN s[w] ELSE 0])

\* the SERIALIZE_PROPERTY of the properties P .. kSplit, in the order of serialize
RECURSIVE CopyFrom(_, _, _, _, _, _, _, _, _, _, _)
CopyFrom(buf, info, pi, K, C, normals, disp, feat, labels, call, P) ==
  IF P > kSplit THEN buf
  ELSE IF P \notin Serialized(info)
  THEN CopyFrom(buf, info, pi, K, C, normals, disp, feat, labels, call, P + 1)
  ELSE LET data == Copied(info, pi, K, C, normals, disp, feat, labels, P)
           at == WordAt(info.ptr_dis[P])
       IN CopyFrom([buf EXCEPT !.words = Overlay(@, at, data),
                               !.by = Overlay(@, at, Fill(Len(data), call))],
                   info, pi, K, C, normals, disp, feat, labels, call, P + 1)

\* serialize: buffer_.resize(sz, 0), *info_ = oct_info_, then the properties;
\* call numbers the calls of serialize within build
serialize(buf, info, pi, K, C, normals, disp, feat, labels, call) ==
  LET n == WordAt(sizeof_octree(info))
  IN CopyFrom([info |-> info, words |-> Resize(buf.words, n), by |-> Resize(buf.by, n)],
              info, pi, K, C, normals, disp, feat, labels, call, kKey)

----------------------------------------------------------------------------
(* Octree::trim_octree: trim_data *)

\* the number of entries of layer d that are not kDrop
RECURSIVE KeptNum(_, _)
KeptNum(drop_d, n) ==
  IF n = 0 THEN 0
  ELSE KeptNum(drop_d, n - 1) + (IF drop_d[n] = "kDrop" THEN 0 ELSE 1)

\* trim_data on the layers adp_layer .. depth of a signal held by its sizes
TrimSizes(info, sizes, dr) ==
  Fn([d \in 0 .. info.depth |->
     IF d >= info.adp_layer /\ sizes[d] \div nnum(info, d) # 0
     THEN (sizes[d] \div nnum(info, d)) * KeptNum(dr[d], nnum(info, d))
     ELSE sizes[d]])

\* trim_data on the layers adp_layer .. depth of avg_normals_
TrimNormals(info, normals, dr) ==
  Fn([d \in 0 .. info.depth |->
     IF d >= info.adp_layer /\ normals[d] # <<>>
     THEN Kept(normals[d], dr[d], 1, nnum(info, d))
     ELSE normals[d]])

----------------------------------------------------------------------------
(* Inputs *)

Big == Sentinel + 1

Thresholds == {1, MaxErr + 1, Big}

\* point clouds with normals only, or with features only
BuildPtInfos ==
  { [normal |-> 3, feature |-> 0, fpfh |-> 0, roughness |-> 0, label |-> 0],
    [normal |-> 0, feature |-> 1, fpfh |-> 0, roughness |-> 0, label |-> 0] }

\* arguments of initialize: a call without adaptive keeps the adaptive
\* parameters at one value, and a call without node_displacement the distance
\* threshold, which trim_octree then does not read
BuildArgs ==
  { a \in [ depth : 1 .. MaxDepth, full_depth : 0 .. MaxFull,
            node_displacement : BOOLEAN, node_feature : {FALSE},
            split_label : {TRUE}, adaptive : BOOLEAN,
            adaptive_depth : 1 .. MaxDepth,
            threshold_distance : Thresholds, threshold_normal : Thresholds,
            key2xyz : {FALSE} ] :
      /\ ~a.adaptive => /\ a.adaptive_depth = a.depth
                        /\ a.threshold_distance = 1
                        /\ a.threshold_normal = 1
      /\ ~a.node_displacement => a.threshold_distance = 1 }

Min(a, b) == IF a < b THEN a ELSE b

\* the cells static_cast<uint32>(pts_scaled) can name at this depth, on the
\* x axis: cell 0 and the first cell of the other octant of every layer
Cells(depth) ==
  ({0} \cup {Pow2(k) : k \in 0 .. Min(MaxX, depth) - 1}) \X {0} \X {0}

Clouds(depth) == UNION {[1 .. n -> Cells(depth)] : n \in 0 .. MaxPts}

----------------------------------------------------------------------------
(* Actions *)

\* the header, the cloud and the octree before the first call
NoOctree ==
  /\ oct_info_ = reset
  /\ pt_info = [normal |-> 0, feature |-> 0, fpfh |-> 0, roughness |-> 0, label |-> 0]
  /\ pts = <<>>
  /\ sorted_keys = <<>>
  /\ sorted_idx = <<>>
  /\ node_keys = <<>>
  /\ unique_idx = <<>>
  /\ keys_ = <<>>
  /\ children_ = <<>>
  /\ dnum_ = <<>>
  /\ didx_ = <<>>
  /\ normal_err_ = <<>>
  /\ distance_err_ = <<>>
  /\ drop = <<>>
  /\ drop_pass = <<>>
  /\ max_idx = <<>>
  /\ pre = <<>>
  /\ buffer_size = 0
  /\ avg_normals_ = <<>>
  /\ displacement_ = <<>>
  /\ avg_features_ = <<>>
  /\ split_labels_ = <<>>
  /\ written = <<>>
  /\ buffer_ = NoBuffer

\* every variable but pc before the first call
Blank ==
  /\ NoOctree
  /\ msg = <<>>
  /\ keyarg = <<>>
  /\ key = 0
  /\ keypt = <<>>
  /\ omp = <<>>

Init == pc = "reset" /\ Blank

\* OctreeInfo::initialize on a reset header
Initialize ==
  /\ pc = "reset"
  /\ \E a \in BuildArgs, pi \in BuildPtInfos :
       /\ oct_info_' = initialize(oct_info_, a, pi)
       /\ pt_info' = pi
  /\ pc' = "initialized"
  /\ UNCHANGED <<pts, sorted_keys, sorted_idx, node_keys, unique_idx, keys_,
                 children_, dnum_, didx_, normal_err_, distance_err_, drop, drop_pass, max_idx, pre, buffer_size>>
  /\ UNCHANGED util
  /\ UNCHANGED <<signals, output>>

\* build with full_layer_ > depth_: build_structure indexes children_ and keys_
\* past their depth_ + 1 layers
BuildOutOfRange ==
  /\ pc = "initialized"
  /\ oct_info_.full_layer > oct_info_.depth
  /\ pc' = "ub"
  /\ UNCHANGED <<oct_info_, pt_info, pts, sorted_keys, sorted_idx, node_keys,
                 unique_idx, keys_, children_, dnum_, didx_, normal_err_, distance_err_, drop, drop_pass, max_idx,
                 pre, buffer_size>>
  /\ UNCHANGED util
  /\ UNCHANGED <<signals, output>>

\* build: clear(depth), oct_info_ = octree_info, normalize_pts
Clear ==
  /\ pc = "initialized"
  /\ oct_info_.full_layer <= oct_info_.depth
  /\ \E cloud \in Clouds(oct_info_.depth) : pts' = cloud
  /\ keys_' = [d \in 0 .. oct_info_.depth |-> <<>>]
  /\ children_' = [d \in 0 .. oct_info_.depth |-> <<>>]
  /\ dnum_' = [d \in 0 .. oct_info_.depth |-> <<>>]
  /\ didx_' = [d \in 0 .. oct_info_.depth |-> <<>>]
  /\ normal_err_' = [d \in 0 .. oct_info_.depth |-> <<>>]
  /\ distance_err_' = [d \in 0 .. oct_info_.depth |-> <<>>]
  /\ buffer_size' = 0
  /\ pc' = "normalize_pts"
  /\ UNCHANGED <<oct_info_, pt_info, sorted_keys, sorted_idx, node_keys,
                 unique_idx, drop, drop_pass, max_idx, pre>>
  /\ UNCHANGED util
  /\ avg_normals_' = [d \in 0 .. oct_info_.depth |-> <<>>]
  /\ displacement_' = [d \in 0 .. oct_info_.depth |-> 0]
  /\ avg_features_' = [d \in 0 .. oct_info_.depth |-> 0]
  /\ split_labels_' = [d \in 0 .. oct_info_.depth |-> <<>>]
  /\ written' = <<>>
  /\ buffer_' = NoBuffer

SortKeys ==
  /\ pc = "normalize_pts"
  /\ \E r \in {sort_keys(pts, oct_info_.depth)} :
        /\ sorted_keys' = r.keys
        /\ sorted_idx' = r.idx
        /\ node_keys' = r.keys
  /\ pc' = "sort_keys"
  /\ UNCHANGED <<oct_info_, pt_info, pts, unique_idx, keys_, children_,
                 dnum_, didx_, normal_err_, distance_err_, drop, drop_pass, max_idx, pre, buffer_size>>
  /\ UNCHANGED util
  /\ UNCHANGED <<signals, output>>

UniqueKey ==
  /\ pc = "sort_keys"
  /\ \E r \in {unique_key(node_keys)} :
        /\ node_keys' = r.keys
        /\ unique_idx' = r.idx
  /\ pc' = "unique_key"
  /\ UNCHANGED <<oct_info_, pt_info, pts, sorted_keys, sorted_idx, keys_,
                 children_, dnum_, didx_, normal_err_, distance_err_, drop, drop_pass, max_idx, pre, buffer_size>>
  /\ UNCHANGED util
  /\ UNCHANGED <<signals, output>>

BuildStructure ==
  /\ pc = "unique_key"
  /\ \E r \in {build_structure(node_keys, oct_info_.depth, oct_info_.full_layer)} :
        /\ keys_' = r.keys
        /\ children_' = r.children
        /\ node_keys' = r.node_keys
  /\ pc' = "build_structure"
  /\ UNCHANGED <<oct_info_, pt_info, pts, sorted_keys, sorted_idx, unique_idx,
                 dnum_, didx_, normal_err_, distance_err_, drop, drop_pass, max_idx, pre, buffer_size>>
  /\ UNCHANGED util
  /\ UNCHANGED <<signals, output>>

CalcNodeNum ==
  /\ pc = "build_structure"
  /\ oct_info_' = calc_node_num(oct_info_, keys_, children_)
  /\ pc' = "calc_node_num"
  /\ UNCHANGED <<pt_info, pts, sorted_keys, sorted_idx, node_keys, unique_idx,
                 keys_, children_, dnum_, didx_, normal_err_, distance_err_, drop, drop_pass, max_idx, pre,
                 buffer_size>>
  /\ UNCHANGED util
  /\ UNCHANGED <<signals, output>>

\* calc_signal of the finest layer, then, when the features live on every
\* layer, covered_depth_nodes and calc_signal of the coarser layers
CalcSignal ==
  /\ pc = "calc_node_num"
  /\ LET on == locations(oct_info_, kFeature) = -1
         calc_norm_err == on /\ oct_info_.is_adaptive
         calc_dist_err == on /\ oct_info_.is_adaptive /\ oct_info_.has_displace
         has_normal == pt_info.normal > 0
         has_pt == oct_info_.has_displace /\ pt_info.normal > 0
     IN \E cov \in {covered_depth_nodes(oct_info_, children_)} :
        \E N \in {IF on THEN ErrNodes(children_, oct_info_.depth, oct_info_.adp_layer)
                  ELSE {}} :
        \E Occ \in {{n \in N : Count(oct_info_, children_, cov, n) > 0}} :
          LET Nn == IF calc_norm_err /\ has_normal THEN N ELSE {}
              Nd == IF calc_dist_err /\ has_pt THEN N ELSE {}
          IN /\ \E en \in [Nn \cap Occ -> 0 .. MaxErr], ed \in [Nd \cap Occ -> 0 .. MaxErr] :
                  /\ normal_err_' = ErrArrays(oct_info_, calc_norm_err, Nn, en, 0)
                  /\ distance_err_' = ErrArrays(oct_info_, calc_dist_err, Nd, ed, Degenerate)
             /\ dnum_' = IF on THEN cov.dnum ELSE dnum_
             /\ didx_' = IF on THEN cov.didx ELSE didx_
             /\ avg_normals_' = AvgNormals(oct_info_, pt_info, children_, cov, unique_idx, on)
             /\ displacement_' = SignalSizes(oct_info_, 1, has_pt, on)
             /\ avg_features_' = SignalSizes(oct_info_, pt_info.feature, pt_info.feature > 0, on)
  /\ pc' = "calc_signal"
  /\ UNCHANGED <<oct_info_, pt_info, pts, sorted_keys, sorted_idx, node_keys,
                 unique_idx, keys_, children_, drop, drop_pass, max_idx, pre, buffer_size>>
  /\ UNCHANGED util
  /\ UNCHANGED output

Serialize ==
  /\ pc = "calc_signal"
  /\ \E split \in {has_property(oct_info_, kSplit)} :
     \E out \in ReadOutcomes(split /\ SplitLabelOutOfRange(oct_info_, children_,
                                                           avg_normals_)) :
       IF out = "stopped"
       THEN /\ pc' = "ub"
            /\ UNCHANGED <<buffer_size, output>>
       ELSE \E labels \in {IF split
                           THEN calc_split_label(oct_info_, children_, avg_normals_,
                                                 out = "nonzero")
                           ELSE split_labels_} :
              /\ split_labels_' = labels
              /\ buffer_size' = sizeof_octree(oct_info_)
              /\ written' = Written(oct_info_, pt_info, keys_, children_, avg_normals_,
                                    displacement_, avg_features_, labels)
              /\ buffer_' = serialize(buffer_, oct_info_, pt_info, keys_, children_,
                                      avg_normals_, displacement_, avg_features_,
                                      labels, 1)
              /\ pc' = "serialize"
  /\ UNCHANGED <<oct_info_, pt_info, pts, sorted_keys, sorted_idx, node_keys,
                 unique_idx, keys_, children_, dnum_, didx_, normal_err_,
                 distance_err_, drop, drop_pass, max_idx, pre>>
  /\ UNCHANGED util
  /\ UNCHANGED signals

TrimOctree ==
  /\ pc = "serialize"
  /\ IF ~oct_info_.is_adaptive
     THEN /\ pc' = "done"
          /\ UNCHANGED <<oct_info_, keys_, children_, drop, drop_pass, max_idx, pre,
                         buffer_size, signals, output>>
     ELSE \E fl \in {TrimFlags(oct_info_, children_, normal_err_, distance_err_)} :
          \E dr \in {fl.drop} :
          \E K \in {TrimKeys(oct_info_, keys_, dr)} :
          \E C \in {TrimLayers(oct_info_, children_, dr)} :
          \E normals \in {TrimNormals(oct_info_, avg_normals_, dr)} :
          \E info \in {calc_node_num(oct_info_, K, C)} :
          \E split \in {has_property(info, kSplit)} :
          \E out \in ReadOutcomes(split /\ SplitLabelOutOfRange(info, C, normals)) :
            IF out = "stopped"
            THEN /\ pc' = "ub"
                 /\ UNCHANGED <<oct_info_, keys_, children_, drop, drop_pass, max_idx,
                                pre, buffer_size, signals, output>>
            ELSE \E disp \in {TrimSizes(oct_info_, displacement_, dr)} :
                 \E feat \in {TrimSizes(oct_info_, avg_features_, dr)} :
                 \E labels \in {IF split
                                THEN calc_split_label(info, C, normals, out = "nonzero")
                                ELSE split_labels_} :
                   /\ drop' = dr
                   /\ drop_pass' = fl.pass
                   /\ max_idx' = fl.max_idx
                   /\ pre' = [keys |-> keys_, children |-> children_]
                   /\ keys_' = K
                   /\ children_' = C
                   /\ avg_normals_' = normals
                   /\ displacement_' = disp
                   /\ avg_features_' = feat
                   /\ oct_info_' = info
                   /\ split_labels_' = labels
                   /\ buffer_size' = sizeof_octree(info)
                   /\ written' = Written(info, pt_info, K, C, normals, disp, feat, labels)
                   /\ buffer_' = serialize(buffer_, info, pt_info, K, C, normals, disp,
                                           feat, labels, 2)
                   /\ pc' = "done"
  /\ UNCHANGED <<pt_info, pts, sorted_keys, sorted_idx, node_keys, unique_idx,
                 dnum_, didx_, normal_err_, distance_err_>>
  /\ UNCHANGED util

Next ==
  \/ Initialize
  \/ BuildOutOfRange
  \/ Clear
  \/ SortKeys
  \/ UniqueKey
  \/ BuildStructure
  \/ CalcNodeNum
  \/ CalcSignal
  \/ Serialize
  \/ TrimOctree

Spec == Init /\ [][Next]_vars

----------------------------------------------------------------------------
(* OctreeInfo::check_format on a header read from a file *)

\* the values of the header fields a file can hold, around the limits
\* check_format tests
FileDepths == {0, 2, 9}

FileBatchSizes == {-1, 0, 1}

FileFullLayers == {-1, 0, 2, 3}

FileAdpLayers == {1, 2, 3}

FileLocations == {-1, 0, 2}

\* channels of property i around 0 and channel_max[i]
FileChannels(i) == {-1, 0, channel_max[i], channel_max[i] + 1}

\* the headers of the files: the fields of a reset header overwritten, one
\* property entry among them
FileInfos ==
  { [reset EXCEPT !.magic_ok = h.magic_ok, !.batch_size = h.batch_size,
                  !.depth = h.depth, !.full_layer = h.full_layer,
                  !.adp_layer = h.adp_layer, !.channels[h.i] = h.ch,
                  !.locations[h.i] = h.lc,
                  !.content_flags = IF h.flag THEN {h.i} ELSE {}] :
      h \in { g \in [ magic_ok : BOOLEAN, batch_size : FileBatchSizes,
                      depth : FileDepths, full_layer : FileFullLayers,
                      adp_layer : FileAdpLayers, i : PropIdx,
                      ch : UNION {FileChannels(i) : i \in PropIdx},
                      lc : FileLocations, flag : BOOLEAN ] :
                g.ch \in FileChannels(g.i) } }

InitInfo == pc = "file" /\ Blank

\* octree2points: the header of the file is read into the OctreeInfo
ReadInfo ==
  /\ pc = "file"
  /\ \E info \in FileInfos : oct_info_' = info
  /\ pc' = "read"
  /\ UNCHANGED <<pt_info, pts, sorted_keys, sorted_idx, node_keys, unique_idx,
                 keys_, children_, dnum_, didx_, normal_err_, distance_err_,
                 drop, drop_pass, max_idx, pre, buffer_size, util>>
  /\ UNCHANGED <<signals, output>>

\* octree2points: check_format(msg)
CheckFormat ==
  /\ pc = "read"
  /\ msg' = check_format(oct_info_)
  /\ pc' = "checked"
  /\ UNCHANGED <<oct_info_, pt_info, pts, sorted_keys, sorted_idx, node_keys,
                 unique_idx, keys_, children_, dnum_, didx_, normal_err_,
                 distance_err_, drop, drop_pass, max_idx, pre, buffer_size, keyarg, key, keypt, omp>>
  /\ UNCHANGED <<signals, output>>

NextInfo ==
  \/ ReadInfo
  \/ CheckFormat

SpecInfo == InitInfo /\ [][NextInfo]_vars

----------------------------------------------------------------------------
(* compute_key and compute_pt on every cell of a grid *)

\* the cells of the grids of depth 0 .. MaxKeyDepth, each with its depth
KeyArgs ==
  { a \in [ pt : (0 .. Pow2(MaxKeyDepth) - 1) \X (0 .. Pow2(MaxKeyDepth) - 1)
                 \X (0 .. Pow2(MaxKeyDepth) - 1),
            depth : 0 .. MaxKeyDepth ] :
      \A j \in 1 .. 3 : a.pt[j] < Pow2(a.depth) }

InitKey ==
  /\ pc = "key"
  /\ NoOctree
  /\ msg = <<>>
  /\ keyarg \in KeyArgs
  /\ key = 0
  /\ keypt = <<>>
  /\ omp = <<>>

\* compute_key(key, pt, depth)
ComputeKey ==
  /\ pc = "key"
  /\ key' = compute_key(keyarg.pt, keyarg.depth)
  /\ pc' = "pt"
  /\ UNCHANGED <<oct_info_, pt_info, pts, sorted_keys, sorted_idx, node_keys,
                 unique_idx, keys_, children_, dnum_, didx_, normal_err_,
                 distance_err_, drop, drop_pass, max_idx, pre, buffer_size, msg, keyarg, keypt, omp>>
  /\ UNCHANGED <<signals, output>>

\* compute_pt(pt, key, depth)
ComputePt ==
  /\ pc = "pt"
  /\ keypt' = compute_pt(key, keyarg.depth)
  /\ pc' = "round"
  /\ UNCHANGED <<oct_info_, pt_info, pts, sorted_keys, sorted_idx, node_keys,
                 unique_idx, keys_, children_, dnum_, didx_, normal_err_,
                 distance_err_, drop, drop_pass, max_idx, pre, buffer_size, msg, keyarg, key, omp>>
  /\ UNCHANGED <<signals, output>>

NextKey ==
  \/ ComputeKey
  \/ ComputePt

SpecKey == InitKey /\ [][NextKey]_vars

----------------------------------------------------------------------------
(* The layer loop of build_structure, its omp parallel for loops run by workers *)

\* key values of layer ParDepth: two octants of the first two parents and of
\* the last one
ParKeyVals == {0, 1, 8, 9, Pow8(ParDepth) - 7, Pow8(ParDepth) - 1}

\* the sequence of the values of S in increasing order
RECURSIVE Ascending(_)
Ascending(S) ==
  IF S = {} THEN <<>>
  ELSE LET m == CHOOSE x \in S : \A y \in S : x <= y
       IN <<m>> \o Ascending(S \ {m})

\* node_keys as sort_keys and unique_key leave them: increasing, no key twice,
\* one key or more
ParNodeKeys ==
  {Ascending(S) : S \in {T \in SUBSET ParKeyVals : Cardinality(T) \in 1 .. MaxNodes}}

\* the locals at the top of the body of the layer loop: parent_keys(n), the
\* iterations of the first parallel loop not yet run
LoopTop(curr_depth, full_layer, nk) ==
  [ curr_depth |-> curr_depth, full_layer |-> full_layer, node_keys |-> nk,
    parent_keys |-> Fill(Size(nk), 0), parent_pidx |-> <<>>, children |-> <<>>,
    todo |-> Idx(nk), wrote |-> {} ]

InitPar ==
  /\ pc = "parent_keys"
  /\ NoOctree
  /\ msg = <<>>
  /\ keyarg = <<>>
  /\ key = 0
  /\ keypt = <<>>
  /\ \E nk \in ParNodeKeys, full_layer \in 0 .. ParDepth - 1 :
       omp = LoopTop(ParDepth, full_layer, nk)

ParUnchanged ==
  UNCHANGED <<oct_info_, pt_info, pts, sorted_keys, sorted_idx, node_keys,
              unique_idx, keys_, children_, dnum_, didx_, normal_err_,
              distance_err_, drop, drop_pass, max_idx, pre, buffer_size,
              signals, output, msg, keyarg, key, keypt>>

\* one iteration of the first parallel loop, by any worker:
\* parent_keys[i] = node_keys[i] >> 3
ParentKey ==
  /\ pc = "parent_keys"
  /\ \E i \in omp.todo :
       omp' = [omp EXCEPT !.parent_keys[i + 1] = Shr3(At(omp.node_keys, i)),
                          !.todo = @ \ {i},
                          !.wrote = @ \cup {[array |-> "parent_keys", at |-> i, by |-> i]}]
  /\ pc' = pc
  /\ ParUnchanged

\* after the first loop: unique_key(parent_keys, parent_pidx), children.resize(nch, -1),
\* addr, which Slot reads from parent_pidx
UniqueParents ==
  /\ pc = "parent_keys"
  /\ omp.todo = {}
  /\ \E u \in {unique_key(omp.parent_keys)} :
       omp' = [omp EXCEPT !.parent_keys = u.keys,
                          !.parent_pidx = u.idx,
                          !.children = Fill(Shl3(Size(u.keys)), -1),
                          !.todo = Idx(omp.node_keys),
                          !.wrote = {}]
  /\ pc' = "set_children"
  /\ ParUnchanged

\* one iteration of the second parallel loop, by any worker: children[k] = i
SetChild ==
  /\ pc = "set_children"
  /\ \E i \in omp.todo :
     \E k \in {Slot(omp.node_keys, omp.parent_pidx, Size(omp.parent_keys), i)} :
       omp' = [omp EXCEPT !.children[k + 1] = i,
                          !.todo = @ \ {i},
                          !.wrote = @ \cup {[array |-> "children", at |-> k, by |-> i]}]
  /\ pc' = pc
  /\ ParUnchanged

\* after the second loop: node_keys.swap(parent_keys), --curr_depth
SwapKeys ==
  /\ pc = "set_children"
  /\ omp.todo = {}
  /\ IF omp.curr_depth - 1 > omp.full_layer
     THEN /\ omp' = LoopTop(omp.curr_depth - 1, omp.full_layer, omp.parent_keys)
          /\ pc' = "parent_keys"
     ELSE /\ omp' = [omp EXCEPT !.node_keys = omp.parent_keys,
                                !.parent_keys = omp.node_keys,
                                !.curr_depth = @ - 1, !.wrote = {}]
          /\ pc' = "layers_done"
  /\ ParUnchanged

NextPar ==
  \/ ParentKey
  \/ UniqueParents
  \/ SetChild
  \/ SwapKeys

SpecPar == InitPar /\ [][NextPar]_vars

----------------------------------------------------------------------------
(* Properties *)

depth_ == oct_info_.depth

full_layer_ == oct_info_.full_layer

adp_layer_ == oct_info_.adp_layer

\* the structure is built and not yet trimmed
BeforeTrim == pc \in {"build_structure", "calc_node_num", "calc_signal", "serialize"}

\* calc_node_num has run on the layers as they are now
Counted == pc \in {"calc_node_num", "calc_signal", "serialize", "done"}

\* trim_octree has rewritten the layers
Trimmed == pc = "done" /\ oct_info_.is_adaptive

\* calc_node_num has run and no trim has rewritten the layers
BuiltUntrimmed == pc \in {"calc_node_num", "calc_signal", "serialize"}
                  \/ (pc = "done" /\ ~oct_info_.is_adaptive)

\* the keys of the input points at the finest layer
PointKeys == {compute_key(pts[p], depth_) : p \in DOMAIN pts}

\* the positions of the internal nodes of a layer
NonEmpty(children_d) == {i \in Idx(children_d) : At(children_d, i) # -1}

\* C1: once the structure is built from N >= 1 points, a finest-layer node
\* is non-empty exactly when an input point has its key, and nnum_nempty of
\* the finest layer counts the distinct point keys
C1_FinestOccupancy ==
  (BuiltUntrimmed /\ Len(pts) >= 1) =>
    /\ \A k \in Idx(keys_[depth_]) :
         (At(children_[depth_], k) # -1) <=> (At(keys_[depth_], k) \in PointKeys)
    /\ oct_info_.nnum_nempty[depth_] = Cardinality(PointKeys)

\* the statement of C1 where the bottom-up loop runs, depth_ > full_layer_
FinestOccupancyBelowFull == depth_ > full_layer_ => C1_FinestOccupancy

C3_FullLayersAllInternal ==
  BuiltUntrimmed =>
    \A d \in 0 .. full_layer_ :
      /\ nnum(oct_info_, d) = Pow8(d)
      /\ Size(keys_[d]) = Pow8(d)
      /\ \A i \in Idx(keys_[d]) : At(keys_[d], i) = i /\ At(children_[d], i) = i

\* the keys of layer full_layer_ with a node below them
CoveredKeys ==
  IF depth_ > full_layer_
  THEN {Shr3(At(keys_[full_layer_ + 1], j)) : j \in Idx(keys_[full_layer_ + 1])}
  ELSE {}

\* C3 amended: the layers up to full_layer_ hold all 8^d keys in order; above
\* full_layer_ every node is internal with children[d][i] = i; at full_layer_
\* a node is internal exactly when layer full_layer_ + 1 has nodes below it,
\* and the internal ones are numbered in position order
C3_FullLayers ==
  BuiltUntrimmed =>
    /\ \A d \in 0 .. full_layer_ :
         /\ nnum(oct_info_, d) = Pow8(d)
         /\ Size(keys_[d]) = Pow8(d)
         /\ Size(children_[d]) = Pow8(d)
         /\ \A i \in Idx(keys_[d]) : At(keys_[d], i) = i
         /\ d < full_layer_ => \A i \in Idx(keys_[d]) : At(children_[d], i) = i
    /\ \A i \in Idx(children_[full_layer_]) :
         /\ (At(children_[full_layer_], i) # -1) <=> (i \in CoveredKeys)
         /\ At(children_[full_layer_], i) # -1 =>
              At(children_[full_layer_], i) = Cardinality({h \in CoveredKeys : h < i})

\* a full layer 2 above a depth-3 tree: layer 1 is all internal although
\* some of its cells hold no point, layer 2 has leaves and internal nodes
C3_Witness ==
  /\ BuiltUntrimmed
  /\ full_layer_ = 2
  /\ depth_ = 3
  /\ Len(pts) >= 1
  /\ \E i \in Idx(children_[2]) : At(children_[2], i) = -1
  /\ \E i \in Idx(children_[2]) : At(children_[2], i) = 1

Restored(d, j) ==
  /\ At(drop[d], j) = "kKeep"
  /\ At(pre.children[d], j) # -1
  /\ BelowThreshold(oct_info_, normal_err_[d], distance_err_[d], j)

C5_DenseChildren ==
  Counted =>
    \A d \in 0 .. depth_ :
      LET ne == NonEmpty(children_[d])
      IN /\ \A i \in ne : At(children_[d], i) = Cardinality({h \in ne : h < i})
         /\ oct_info_.nnum_nempty[d] = Cardinality(ne)
         /\ nnum(oct_info_, d) = Size(children_[d])

\* a trimmed layer whose internal nodes are numbered afresh: a leaf lies
\* before the internal node that is left, and another layer has two
C5_Witness ==
  /\ Trimmed
  /\ \E d \in 1 .. depth_ :
       /\ Size(children_[d]) < Size(pre.children[d])
       /\ \E i, j \in Idx(children_[d]) :
            i < j /\ At(children_[d], i) = -1 /\ At(children_[d], j) = 0
       /\ oct_info_.nnum_nempty[d] = 1
  /\ \E d \in 1 .. depth_ : oct_info_.nnum_nempty[d] = 2

\* C6: an adaptive trim of a tree built from N >= 1 points under a header
\* with full_layer <= adaptive_layer <= depth leaves a non-empty node on
\* every layer from adaptive_layer down
C6_NonEmptyLayers ==
  (Trimmed /\ Len(pts) >= 1 /\ full_layer_ <= adp_layer_ /\ adp_layer_ <= depth_) =>
    \A d \in adp_layer_ .. depth_ : oct_info_.nnum_nempty[d] >= 1

\* the statement of C6 where the finest layer lies below the full layers
NonEmptyLayersBelowFull == depth_ > full_layer_ => C6_NonEmptyLayers

\* node j of the untrimmed layer d is still in the trimmed tree
Retained(d, j) == \E t \in Idx(keys_[d]) : At(keys_[d], t) = At(pre.keys[d], j)

\* the position of a retained node in the trimmed layer
NewPos(d, j) == CHOOSE t \in Idx(keys_[d]) : At(keys_[d], t) = At(pre.keys[d], j)

\* the nodes of the untrimmed tree below node j of layer d
Descendants(d, j) ==
  {n \in UNION {{e} \X Idx(pre.keys[e]) : e \in (d + 1) .. depth_} :
     At(pre.keys[n[1]], n[2]) \div Pow8(n[1] - d) = At(pre.keys[d], j)}

Sorted == pc \notin {"reset", "initialized", "ub", "normalize_pts"}

\* the key of the point with index i
KeyOfPoint(i) == compute_key(pts[i + 1], depth_)

\* C8: sort_keys leaves sorted_keys non-decreasing and sorted_idx a
\* permutation of the point indices with sorted_keys[t] the key of point
\* sorted_idx[t]; equal keys come in increasing point index
C8_SortKeys ==
  Sorted =>
    /\ Size(sorted_keys) = Len(pts)
    /\ Size(sorted_idx) = Len(pts)
    /\ {At(sorted_idx, t) : t \in Idx(sorted_idx)} = Idx(pts)
    /\ \A t \in Idx(sorted_keys) : At(sorted_keys, t) = KeyOfPoint(At(sorted_idx, t))
    /\ \A s, t \in Idx(sorted_keys) :
         s < t => \/ At(sorted_keys, s) < At(sorted_keys, t)
                  \/ /\ At(sorted_keys, s) = At(sorted_keys, t)
                     /\ At(sorted_idx, s) < At(sorted_idx, t)

\* two points given in decreasing key order have been sorted
C8_Witness ==
  /\ pc = "sort_keys"
  /\ Len(pts) = 2
  /\ KeyOfPoint(0) > KeyOfPoint(1)
  /\ sorted_idx = <<1, 0>>

\* C9: unique_key on the non-decreasing keys of N >= 1 points returns the
\* distinct keys in strictly increasing order and the strictly increasing
\* run starts, from 0 to N, the run of keys[t] being the positions
\* idx[t] .. idx[t + 1] - 1
C9_UniqueKey ==
  (pc = "unique_key" /\ Len(pts) >= 1) =>
    /\ \A s, t \in Idx(node_keys) : s < t => At(node_keys, s) < At(node_keys, t)
    /\ {At(node_keys, t) : t \in Idx(node_keys)}
         = {At(sorted_keys, p) : p \in Idx(sorted_keys)}
    /\ Size(unique_idx) = Size(node_keys) + 1
    /\ \A s, t \in Idx(unique_idx) : s < t => At(unique_idx, s) < At(unique_idx, t)
    /\ At(unique_idx, 0) = 0
    /\ At(unique_idx, Size(unique_idx) - 1) = Len(pts)
    /\ \A t \in Idx(node_keys) :
         {p \in Idx(sorted_keys) : At(sorted_keys, p) = At(node_keys, t)}
           = At(unique_idx, t) .. (At(unique_idx, t + 1) - 1)

\* two points with different keys: two runs of one point
C9_Witness ==
  /\ pc = "unique_key"
  /\ Len(pts) = 2
  /\ Size(node_keys) = 2
  /\ unique_idx = <<0, 1, 2>>

\* the nodes of the layers 0 .. d
RECURSIVE NodesUpTo(_)
NodesUpTo(d) == IF d < 0 THEN 0 ELSE NodesUpTo(d - 1) + Size(keys_[d])

\* C10: after set_ptr_dis, ptr_dis[0] is the header size, property K takes
\* 4 * channels[K] * (all nodes if locations[K] = -1, else nnum[depth]) bytes,
\* an absent property takes none, ptr_dis is non-decreasing, and the
\* serialized buffer has ptr_dis[kPTypeNum] bytes
C10_PtrDis ==
  Counted =>
    /\ oct_info_.ptr_dis[0] = SizeofOctreeInfo
    /\ \A K \in PropIdx :
         /\ oct_info_.ptr_dis[K + 1] - oct_info_.ptr_dis[K]
              = 4 * oct_info_.channels[K]
                  * (IF oct_info_.locations[K] = -1 THEN NodesUpTo(depth_)
                     ELSE Size(keys_[depth_]))
         /\ ~has_property(oct_info_, K) =>
              oct_info_.ptr_dis[K + 1] = oct_info_.ptr_dis[K]
         /\ oct_info_.ptr_dis[K] <= oct_info_.ptr_dis[K + 1]
    /\ pc \in {"serialize", "done"} => buffer_size = oct_info_.ptr_dis[kPTypeNum]

\* a serialized octree with a feature stored on the finest layer only, keys
\* stored on every layer and no label
C10_Witness ==
  /\ pc = "serialize"
  /\ depth_ >= 2
  /\ has_property(oct_info_, kFeature) /\ oct_info_.locations[kFeature] = depth_
  /\ has_property(oct_info_, kKey) /\ oct_info_.locations[kKey] = -1
  /\ ~has_property(oct_info_, kLabel)
  /\ Size(keys_[depth_]) >= 8
  /\ buffer_size > SizeofOctreeInfo

\* the conditions of a malformed header
Malformed(info) ==
  \/ ~info.magic_ok
  \/ info.batch_size < 1
  \/ info.depth < 1 \/ info.depth > 8
  \/ info.full_layer < 0 \/ info.full_layer > info.depth
  \/ info.adp_layer < info.full_layer \/ info.adp_layer > info.depth
  \/ \E k \in PropIdx :
       \/ info.channels[k] < 0
       \/ info.channels[k] > channel_max[k]
       \/ (info.channels[k] = 0) # (k \notin info.content_flags)
       \/ /\ info.channels[k] # 0
          /\ info.locations[k] \notin {-1, info.depth}

\* C11: check_format returns false with a message exactly for the malformed
\* headers, and true with an empty message for the others
C11_CheckFormat ==
  pc = "checked" => ((msg # <<>>) <=> Malformed(oct_info_))

\* what check_format lets pass: a batch size of 0 and channels above the cap
C11_PassesBatchZero ==
  ~ (pc = "checked" /\ msg = <<>> /\ oct_info_.batch_size = 0)

C11_PassesChannelAboveCap ==
  ~ (pc = "checked" /\ msg = <<>>
     /\ \E k \in PropIdx : oct_info_.channels[k] > channel_max[k])

\* check_format never reports a header that is not malformed
C11_ReportsOnlyMalformed ==
  pc = "checked" => (msg # <<>> => Malformed(oct_info_))

\* the cell of depth d - 1 that encloses the cell pt of depth d
Halved(pt) == <<pt[1] \div 2, pt[2] \div 2, pt[3] \div 2>>

\* C12: compute_pt(compute_key(p, d), d) = p for every cell p of the grid of
\* depth d; key >> 3 is the key of the enclosing cell at depth d - 1 and
\* key & 7 is the child index of the cell within it
C12_KeyRoundTrip ==
  pc = "round" =>
    /\ keypt = keyarg.pt
    /\ keyarg.depth >= 1 =>
         /\ Shr3(key) = compute_key(Halved(keyarg.pt), keyarg.depth - 1)
         /\ And7(key) = 4 * (keyarg.pt[1] % 2) + 2 * (keyarg.pt[2] % 2)
                        + (keyarg.pt[3] % 2)

\* a cell of the deepest grid with three different coordinates went round
C12_Witness ==
  /\ pc = "round"
  /\ keyarg.depth = MaxKeyDepth
  /\ keyarg.pt[1] # keyarg.pt[2]
  /\ keyarg.pt[2] # keyarg.pt[3]
  /\ keyarg.pt[1] # keyarg.pt[3]
  /\ keypt = keyarg.pt

\* adaptive, both thresholds below the sentinel and every internal node of
\* the untrimmed layers adp_layer_ .. depth_ - 1 below the thresholds
Loose ==
  /\ Trimmed
  /\ oct_info_.threshold_normal <= Sentinel
  /\ oct_info_.threshold_dist <= Sentinel
  /\ \A d \in adp_layer_ .. (depth_ - 1) :
       \A i \in NonEmpty(pre.children[d]) :
         /\ At(normal_err_[d], i) < oct_info_.threshold_normal
         /\ oct_info_.has_displace =>
              At(distance_err_[d], i) < oct_info_.threshold_dist

ZeroPoints == Sorted /\ pts = <<>>

\* C14: a build from a cloud with zero points aborts: the tree gets no
\* internal node at the finest layer and no buffer is serialized
C14_ZeroPointsAbort ==
  ZeroPoints =>
    /\ NonEmpty(children_[depth_]) = {}
    /\ buffer_size = 0
    /\ pc # "done"

\* what the build does instead: the key 0 that unique_key leaves in the
\* resized vector becomes an internal node of the finest layer
C14_PhantomNode ==
  ~ (ZeroPoints /\ pc = "done" /\ buffer_size > 0
     /\ NonEmpty(children_[depth_]) # {})

\* the positions at layer d of the 8 children of the internal node i of the
\* untrimmed layer d - 1
ChildrenOf(d, i) == {8 * At(pre.children[d - 1], i) + j : j \in 0 .. 7}

\* the errors of node idx of the untrimmed layer d are below the thresholds
Below(d, idx) ==
  /\ At(normal_err_[d], idx) < oct_info_.threshold_normal
  /\ ~oct_info_.has_displace
     \/ At(distance_err_[d], idx) < oct_info_.threshold_dist

\* C15: after the flag pass of layer d >= adaptive_layer and before its
\* restore step, the children of an internal kKeep parent are kDropChildren
\* when their errors are below the thresholds and kKeep otherwise, and the
\* children of an internal parent that is not kKeep are all kDrop; the flags
\* of the layers below adaptive_layer stay kKeep
C15_FlagPass ==
  Trimmed =>
    /\ \A d \in adp_layer_ .. depth_ :
         \A i \in NonEmpty(pre.children[d - 1]) :
           \A idx \in ChildrenOf(d, i) :
             At(drop_pass[d], idx) =
               IF At(drop[d - 1], i) = "kKeep"
               THEN IF Below(d, idx) THEN "kDropChildren" ELSE "kKeep"
               ELSE "kDrop"
    /\ \A d \in 0 .. Min(adp_layer_ - 1, depth_) :
         /\ \A idx \in Idx(drop[d]) : At(drop[d], idx) = "kKeep"
         /\ drop_pass[d] = drop[d]

\* a pass with displacement in which a kKeep parent got a kDropChildren child
\* and a kKeep child, and a parent that is not kKeep got its children dropped
C15_Witness ==
  /\ Trimmed
  /\ oct_info_.has_displace
  /\ \E d \in adp_layer_ .. depth_ :
       \E i \in NonEmpty(pre.children[d - 1]) :
         /\ At(drop[d - 1], i) = "kKeep"
         /\ \E idx \in ChildrenOf(d, i) : At(drop_pass[d], idx) = "kDropChildren"
         /\ \E idx \in ChildrenOf(d, i) : At(drop_pass[d], idx) = "kKeep"
  /\ \E d \in adp_layer_ .. depth_ :
       \E i \in NonEmpty(pre.children[d - 1]) :
         /\ At(drop[d - 1], i) # "kKeep"
         /\ \A idx \in ChildrenOf(d, i) : At(drop_pass[d], idx) = "kDrop"

\* the pass of layer d left no internal node with flag kKeep
NoInternalKeep(d) ==
  ~ \E idx \in NonEmpty(pre.children[d]) : At(drop_pass[d], idx) = "kKeep"

\* the parent of node idx of the untrimmed layer d is internal and kKeep
KeepParent(d, idx) ==
  \E i \in NonEmpty(pre.children[d - 1]) :
    idx \in ChildrenOf(d, i) /\ At(drop[d - 1], i) = "kKeep"

\* the nodes of layer d the restore step chooses from
Candidates(d) == {idx \in NonEmpty(pre.children[d]) : KeepParent(d, idx)}

\* C16: when the pass of layer d leaves no internal kKeep node, the flag of
\* exactly one node is reset to kKeep: an internal node under an internal
\* kKeep parent with the largest normal_err among these, the first of them in
\* position order; no leaf and no node under another parent is restored
C16_Restore ==
  Trimmed =>
    \A d \in adp_layer_ .. depth_ :
      IF NoInternalKeep(d)
      THEN /\ max_idx[d] \in Candidates(d)
           /\ \A o \in Candidates(d) :
                \/ At(normal_err_[d], o) < At(normal_err_[d], max_idx[d])
                \/ /\ At(normal_err_[d], o) = At(normal_err_[d], max_idx[d])
                   /\ max_idx[d] <= o
           /\ drop[d] = [drop_pass[d] EXCEPT ![max_idx[d] + 1] = "kKeep"]
           /\ At(drop_pass[d], max_idx[d]) # "kKeep"
      ELSE max_idx[d] = -1 /\ drop[d] = drop_pass[d]

\* the restore step on a tree whose finest layer is below the full layers
C16_RestoreBelowFull ==
  (depth_ > full_layer_ /\ full_layer_ <= adp_layer_) => C16_Restore

\* the restore step resets the flag of a leaf
C16_LeafRestored ==
  ~ (Trimmed /\ full_layer_ <= adp_layer_
     /\ \E d \in adp_layer_ .. depth_ :
          /\ max_idx[d] # -1
          /\ At(pre.children[d], max_idx[d]) = -1)

\* covered_depth_nodes has run on the layers as they are now
CoveredNow ==
  pc \in {"calc_signal", "serialize"} /\ locations(oct_info_, kFeature) = -1

\* the positions of the finest layer whose key lies below node i of layer d
FinestBelow(d, i) ==
  {j \in Idx(keys_[depth_]) :
     At(keys_[depth_], j) \div Pow8(depth_ - d) = At(keys_[d], i)}

\* C17: after covered_depth_nodes, for every node i of a layer d < depth that
\* is not a leaf, didx_[d][i] .. didx_[d][i] + dnum_[d][i] - 1 are exactly the
\* positions of the finest layer whose key shifted right by 3 (depth - d) is
\* keys_[d][i]; a leaf has dnum_ 0 and didx_ -1
C17_CoveredRange ==
  CoveredNow =>
    \A d \in 0 .. (depth_ - 1) :
      \A i \in Idx(keys_[d]) :
        IF At(children_[d], i) # -1
        THEN At(didx_[d], i) .. (At(didx_[d], i) + At(dnum_[d], i) - 1)
             = FinestBelow(d, i)
        ELSE At(dnum_[d], i) = 0 /\ At(didx_[d], i) = -1

\* covered_depth_nodes on a tree of depth >= 3 whose root covers two blocks
\* of the finest layer, the second one below another node of layer 1
C17_Witness ==
  /\ CoveredNow
  /\ depth_ >= 3
  /\ At(dnum_[0], 0) = 16
  /\ At(didx_[0], 0) = 0
  /\ \E i \in NonEmpty(children_[1]) :
       /\ At(didx_[1], i) = 8
       /\ At(dnum_[1], i) = 8
       /\ FinestBelow(1, i) = 8 .. 15

\* the largest position of a non-empty node of the layer
LastPos(children_d) ==
  CHOOSE i \in NonEmpty(children_d) : \A h \in NonEmpty(children_d) : h <= i

\* C18 as stated: after calc_node_num nnum[d] is the number of keys of layer
\* d and nnum_nempty[d] is one plus the largest position i with
\* children[d][i] != -1, or 0 without such a position
C18_NodeNum ==
  Counted =>
    \A d \in 0 .. depth_ :
      /\ nnum(oct_info_, d) = Size(keys_[d])
      /\ oct_info_.nnum_nempty[d] =
           IF NonEmpty(children_[d]) = {} THEN 0 ELSE LastPos(children_[d]) + 1

\* C18 amended: nnum_nempty[d] is one plus the value children[d][i] at the
\* largest position i with children[d][i] != -1, or 0 without such a position
C18_NodeNumByValue ==
  Counted =>
    \A d \in 0 .. depth_ :
      /\ nnum(oct_info_, d) = Size(keys_[d])
      /\ oct_info_.nnum_nempty[d] =
           IF NonEmpty(children_[d]) = {} THEN 0
           ELSE At(children_[d], LastPos(children_[d])) + 1

\* a counted layer with two non-empty nodes, the last one behind a leaf
C18_Witness ==
  /\ Counted
  /\ \E d \in 1 .. depth_ :
       /\ Cardinality(NonEmpty(children_[d])) = 2
       /\ LastPos(children_[d]) > 1
       /\ oct_info_.nnum_nempty[d] = 2
       /\ nnum(oct_info_, d) = Size(keys_[d])

\* the build is over and the header has the split label
FinalSplit == pc = "done" /\ has_property(oct_info_, kSplit)

\* the averaged normal stored for node i of layer d is not zero
StoredNormal(d, i) ==
  i < Len(avg_normals_[d]) /\ At(avg_normals_[d], i) # 0

\* the cell of node i of layer d holds a point of the cloud
HoldsPoint(d, i) ==
  \E k \in PointKeys : k \div Pow8(depth_ - d) = At(keys_[d], i)

\* node i of the trimmed layer d was internal and is kDropChildren
Collapsed(d, i) ==
  /\ oct_info_.is_adaptive
  /\ d >= adp_layer_
  /\ \E j \in Idx(pre.keys[d]) :
       /\ At(pre.keys[d], j) = At(keys_[d], i)
       /\ At(pre.children[d], j) # -1
       /\ At(drop[d], j) = "kDropChildren"

\* C19: in the final tree with split labels the label of a node is 1 exactly
\* when the node is not a leaf; a leaf has 0 in non-adaptive mode; in
\* adaptive mode a leaf has 2 when its averaged normal is not zero and 0
\* otherwise, so a collapsed node with a non-zero normal has 2 and a cell
\* that never held a point has 0
C19_SplitLabels ==
  FinalSplit =>
    \A d \in 0 .. depth_ :
      \A i \in Idx(children_[d]) :
        LET label == At(split_labels_[d], i)
            leaf == At(children_[d], i) = -1
        IN /\ (label = 1) <=> ~leaf
           /\ (leaf /\ ~oct_info_.is_adaptive) => label = 0
           /\ (leaf /\ oct_info_.is_adaptive) =>
                label = IF StoredNormal(d, i) THEN 2 ELSE 0
           /\ (Collapsed(d, i) /\ StoredNormal(d, i)) => label = 2
           /\ (leaf /\ ~HoldsPoint(d, i)) => label = 0

\* the split labels of the trees built from clouds with normals
C19_SplitLabelsWithNormals ==
  pt_info.normal > 0 => C19_SplitLabels

\* calc_split_label is stopped by a read past the end of avg_normals_
C19_ReadInsideNormals ==
  ~ (pc = "ub" /\ oct_info_.full_layer <= oct_info_.depth)

\* a collapsed node that holds a point and got the label 2 from clouds with
\* normals, beside a leaf with the label 0
C19_CollapsedLabelled ==
  ~ (FinalSplit /\ pt_info.normal > 0
     /\ \E d \in 0 .. depth_ :
          /\ \E i \in Idx(children_[d]) :
               Collapsed(d, i) /\ HoldsPoint(d, i) /\ At(split_labels_[d], i) = 2
          /\ \E i \in Idx(children_[d]) : At(split_labels_[d], i) = 0)

\* serialize has filled buffer_ from the layers as they are now
SerializedNow == pc \in {"serialize", "done"}

\* OctreeInfo::ptr_dis(P, d) of a property stored on every layer
PtrDisAt(P, d) ==
  oct_info_.ptr_dis[P] + oct_info_.nnum_cum[d] * channel(oct_info_, P) * SizeofInt

\* C20: for every property P of the header with locations[P] = -1 and every
\* layer d, serialize writes the data of layer d at the offset
\* ptr_dis(P, d) = ptr_dis[P] + 4 * channels[P] * nnum_cum[d] and over
\* 4 * channels[P] * nnum[d] bytes, whatever attributes the cloud has and
\* whatever flags initialize was given
C20_LayerOffsets ==
  SerializedNow =>
    \A P \in DOMAIN written :
      locations(oct_info_, P) = -1 =>
        \A d \in 0 .. depth_ :
          /\ written[P][d + 1].at = PtrDisAt(P, d)
          /\ written[P][d + 1].bytes = SizeofInt * channel(oct_info_, P) * nnum(oct_info_, d)

\* the layers of the trees whose header counts the channels the cloud has:
\* no displacement asked for a cloud without normals
C20_LayerOffsetsWithNormals ==
  (oct_info_.has_displace => pt_info.normal > 0) => C20_LayerOffsets

\* a feature written on every layer of a tree of two layers or more, with
\* displacement, at the offsets of the header
C20_FeatureLayersWritten ==
  ~ (SerializedNow /\ depth_ >= 2
     /\ oct_info_.has_displace /\ pt_info.normal > 0
     /\ kFeature \in DOMAIN written
     /\ locations(oct_info_, kFeature) = -1
     /\ \A d \in 0 .. depth_ : written[kFeature][d + 1].at = PtrDisAt(kFeature, d)
     /\ written[kFeature][depth_ + 1].bytes >= 32 * SizeofInt)

\* OctreeInfo::initialize has filled the header and build has not started
Initialized == pc = "initialized"

\* C23: after OctreeInfo::initialize on a reset header the header satisfies
\* 1 <= full_layer <= depth, the range build_structure assumes when it
\* indexes the layers 0 .. full_layer
C23_InitializeRange ==
  Initialized => (1 <= full_layer_ /\ full_layer_ <= depth_)

\* what the setters do give in the order initialize calls them: set_depth
\* clamps against the full_layer_ of the reset header, set_full_layer clamps
\* from below only
C23_InitializeLowerBounds ==
  Initialized => (1 <= full_layer_ /\ 1 <= depth_)

\* a header initialize leaves with full_layer_ above depth_, which
\* check_format rejects
C23_FullAboveDepth ==
  ~ (Initialized /\ full_layer_ > depth_
     /\ \E i \in DOMAIN check_format(oct_info_) : check_format(oct_info_)[i] = "full_layer")

\* a pass of the layer loop of build_structure is running
InLayerLoop == pc \in {"parent_keys", "set_children"}

\* the second parallel loop of the pass has run all its iterations
ChildrenSet == pc = "set_children" /\ omp.todo = {}

\* the slot iteration i of the second parallel loop writes
SlotOf(i) == Slot(omp.node_keys, omp.parent_pidx, Size(omp.parent_keys), i)

\* C22: in the parallel loops of build_structure no two iterations write the
\* same array element: in the child-assignment loop two distinct node indices
\* never map to the same slot k = (node_keys[i] & 7) | addr[i], and whatever
\* order the workers run the iterations in, the children array the loop
\* leaves is the one the sequential loop leaves
C22_DisjointWrites ==
  InLayerLoop =>
    /\ \A w1, w2 \in omp.wrote :
         (w1.array = w2.array /\ w1.at = w2.at) => w1.by = w2.by
    /\ pc = "set_children" =>
         /\ \A i, j \in Idx(omp.node_keys) : i # j => SlotOf(i) # SlotOf(j)
         /\ \A i \in Idx(omp.node_keys) : SlotOf(i) \in Idx(omp.children)
    /\ ChildrenSet =>
         omp.children = SetChildren(omp.node_keys, omp.parent_pidx,
                                    Size(omp.parent_keys))

\* the child-assignment loop done on three nodes, two of them in the same
\* octant of different parents and two of them under the same parent
C22_Witness ==
  /\ ChildrenSet
  /\ Size(omp.node_keys) >= 3
  /\ Cardinality({w \in omp.wrote : w.array = "children"}) >= 3
  /\ \E i, j \in Idx(omp.node_keys) :
       /\ i # j
       /\ And7(At(omp.node_keys, i)) = And7(At(omp.node_keys, j))
  /\ \E i, j \in Idx(omp.node_keys) :
       /\ i # j
       /\ Shr3(At(omp.node_keys, i)) = Shr3(At(omp.node_keys, j))

\* build has returned
Returned == pc = "done"

\* the layers 0 .. depth_ of a per-layer array, one after the other
RECURSIVE Layers(_, _)
Layers(A, d) == IF d < 0 THEN <<>> ELSE Layers(A, d - 1) \o A[d]

\* the words of buffer_ a reader finds in the section of property P
Section(P) ==
  SubSeq(buffer_.words, WordAt(buffer_.info.ptr_dis[P]) + 1,
         WordAt(buffer_.info.ptr_dis[P + 1]))

\* the header at the start of buffer_ counts the layers as they are, and its
\* offsets are the ones set_ptr_dis computes from those counts
HeaderCurrent ==
  /\ buffer_.info = oct_info_
  /\ \A d \in 0 .. depth_ :
       /\ buffer_.info.nnum[d] = Len(keys_[d])
       /\ buffer_.info.nnum[d] = Len(children_[d])
  /\ buffer_.info = set_ptr_dis(set_nnum_cum(buffer_.info, 0))
  /\ buffer_size = buffer_.info.ptr_dis[kPTypeNum]
  /\ Len(buffer_.words) = WordAt(buffer_size)
  /\ Len(buffer_.by) = Len(buffer_.words)

\* the Key and Child sections hold the layers as they are
PayloadCurrent ==
  /\ Section(kKey) = Layers(keys_, depth_)
  /\ Section(kChild) = Layers(children_, depth_)

\* no word of buffer_ is left from the serialize that ran before the trim
NoPreTrimWord ==
  oct_info_.is_adaptive => \A w \in DOMAIN buffer_.by : buffer_.by[w] # 1

\* C21: when build returns, adaptive or not, the header at the start of the
\* buffer has nnum[d] = |keys[d]| = |children[d]| for every d, the buffer
\* length is ptr_dis[kPTypeNum] computed from those counts, the Key and Child
\* payloads are the current layers, and no count, offset or payload from
\* before the trim is left in the buffer
C21_FinalBuffer ==
  Returned => (HeaderCurrent /\ PayloadCurrent /\ NoPreTrimWord)

\* the header and the Key and Child sections, whatever the other sections hold
C21_HeaderKeyChild ==
  Returned => (HeaderCurrent /\ PayloadCurrent)

\* the whole buffer for the trees whose header counts the channels the cloud
\* has: no displacement asked for a cloud without normals
C21_FinalBufferWithNormals ==
  (oct_info_.has_displace => pt_info.normal > 0) => C21_FinalBuffer

\* a trimmed tree that lost nodes, its buffer shorter than the one of the
\* first serialize, every word of it written by the second
C21_Rewritten ==
  ~ (Returned /\ Trimmed
     /\ \E d \in 0 .. depth_ : Len(keys_[d]) < Len(pre.keys[d])
     /\ Len(buffer_.words) > 0
     /\ \A w \in DOMAIN buffer_.by : buffer_.by[w] = 2)

\* a word of the first serialize inside the final buffer
C21_PreTrimWordLeft ==
  ~ (Returned /\ Trimmed /\ \E w \in DOMAIN buffer_.by : buffer_.by[w] = 1)

====
